---- MODULE Spec2Model ----
(***************************************************************************)
(* A model of ribs.emitters.EmitterBase (src/ribs/emitters/                *)
(* _emitter_base.py): the static bounds processor _process_bounds, the     *)
(* constructor, the four properties and the two abstract operations ask    *)
(* and tell, together with the caller's view of the numpy arrays the       *)
(* emitter hands out.  Numpy arrays are objects on a heap; a reference to  *)
(* an array is its position in heap.  Python's 0-based index idx is the    *)
(* 1-based position idx + 1 of a TLA+ sequence.                            *)
(*                                                                         *)
(* SpecBounds: _process_bounds called directly and by the constructor.     *)
(* SpecPure:   _process_bounds and a caller assigning into its results.    *)
(* SpecEmitter: an emitter, its properties, ask, tell, and its caller.     *)
(* SpecCMA:    the ask/tell protocol of the CMA-ME emitters, as described. *)
(***************************************************************************)
EXTENDS Integers, Sequences, FiniteSets

VARIABLES
    bounds,        \* the caller's bounds argument (an object the caller owns)
    solution_dim,  \* the caller's solution_dim argument
    dtype,         \* archive.dtype, the element type of the bound vectors
    heap,          \* the numpy arrays alive in the program, by reference
    calls,         \* the direct _process_bounds calls made so far: the arguments
                   \* passed, the outcome and the references returned
    emitter,       \* the emitter object (its private fields), once constructed
    held,          \* array references the caller got from the properties
    written,       \* <<reference, position>> pairs the caller assigned to
    ctor,          \* how the last constructor call ended
    cma,           \* the state a CMA-ME emitter adds to the base emitter
    last           \* the last ask() or tell() of a CMA-ME emitter and how it ended

vars == <<bounds, solution_dim, dtype, heap, calls, emitter, held, written, ctor, cma, last>>

-----------------------------------------------------------------------------
(* Bounds of the model. *)

MaxDim == 2        \* solution_dim ranges over 0..MaxDim
MaxLen == 2        \* a bounds sequence has 0..MaxLen entries
MaxCalls == 2      \* direct _process_bounds calls in one behaviour
MaxWrites == 1     \* element assignments the caller makes to arrays it holds
MaxBatch == 2      \* lengths of the batches given to EmitterBase.tell()
MaxSolDim == 20    \* solution_dim of a CMA-ME emitter ranges over 1..MaxSolDim
MaxExplicit == 2   \* an explicit batch_size ranges over 1..MaxExplicit
MaxGen == 2        \* generations of one run of the evolution strategy
MaxRestarts == 1   \* restarts of one CMA-ME emitter

-----------------------------------------------------------------------------
(* Values.  An element of a float array is a finite number or +-inf. *)

Num(v) == [inf |-> 0, val |-> v]
NegInf == [inf |-> -1, val |-> 0]   \* -np.inf
PosInf == [inf |-> 1, val |-> 0]    \* np.inf

\* a <= b on array elements
Le(a, b) ==
    \/ a.inf < b.inf
    \/ a.inf = b.inf /\ (a.inf # 0 \/ a.val <= b.val)

\* The smallest integer float32 cannot represent: 2^24 + 1.
Big == 2^24 + 1

\* The numbers a caller gives as low or high.
Vals == {0, Big}

\* One side of a pair: None, or a number.
NoneSide == [isNone |-> TRUE, val |-> 0]
SomeSide(v) == [isNone |-> FALSE, val |-> v]
Sides == {NoneSide} \cup {SomeSide(v) : v \in Vals}

\* One entry of a bounds sequence: None, or a sequence (tuple) of sides.
NoneEntry == [isNone |-> TRUE, items |-> <<>>]
Tuple(s) == [isNone |-> FALSE, items |-> s]
Pairs == {Tuple(<<a, b>>) : a, b \in Sides}
Malformed ==
    {Tuple(<<>>), Tuple(<<SomeSide(0)>>),
     Tuple(<<SomeSide(0), SomeSide(Big), SomeSide(0)>>)}
Entries == {NoneEntry} \cup Pairs \cup Malformed

\* The bounds argument: None, or a sequence of entries.
NoneBounds == [isNone |-> TRUE, items |-> <<>>]
SeqBounds(s) == [isNone |-> FALSE, items |-> s]
SeqsUpTo(S, n) == UNION {[1..k -> S] : k \in 0..n}
BoundsArgs == {NoneBounds} \cup {SeqBounds(s) : s \in SeqsUpTo(Entries, MaxLen)}

\* The element types an archive has.
DTypes == {"float32", "float64"}

-----------------------------------------------------------------------------
(* Conversion of a Python number to an array element of type dtype, as an  *)
(* assignment into a numpy float array does it: round to nearest, ties to  *)
(* even, at the precision of the type.                                     *)

MantissaBits(dt) == IF dt = "float32" THEN 24 ELSE 53

RECURSIVE BitLen(_)
BitLen(a) == IF a = 0 THEN 0 ELSE 1 + BitLen(a \div 2)

Abs(v) == IF v < 0 THEN -v ELSE v

RoundToBits(v, p) ==
    LET a == Abs(v)
        e == IF BitLen(a) > p THEN BitLen(a) - p ELSE 0
        q == 2^e
        r == a % q
        down == a - r
        up == down + q
        near == IF 2 * r < q THEN down
                ELSE IF 2 * r > q THEN up
                ELSE IF (down \div q) % 2 = 0 THEN down ELSE up
    IN IF v < 0 THEN -near ELSE near

Cast(dt, x) == IF x.inf # 0 THEN x ELSE Num(RoundToBits(x.val, MantissaBits(dt)))

\* np.full(n, fill, dtype=dt)
Full(n, fill, dt) == [i \in 1..n |-> Cast(dt, fill)]

-----------------------------------------------------------------------------
(* EmitterBase._process_bounds *)

LengthMsg == "If it is an array-like, bounds must have the same length as x0"
EntryMsg == "All entries of bounds must be length 2"

\* What a call ends with: the two vectors, or a raised exception.  idx is the
\* position the loop was at when it raised (0: before the loop).
Returned(lower, upper) ==
    [status |-> "ok", exc |-> "", msg |-> "", idx |-> 0,
     lower |-> lower, upper |-> upper]
Raised(exc, msg, idx) ==
    [status |-> "error", exc |-> exc, msg |-> msg, idx |-> idx,
     lower |-> <<>>, upper |-> <<>>]

\* len(bounds) != solution_dim
LengthCheckTooLong(b, n) == Len(b.items) > n
LengthCheckFails(b, n) == Len(b.items) # n

\* len(bnd) != 2
EntryTooShort(bnd) == Len(bnd.items) < 2
EntryMalformed(bnd) == Len(bnd.items) # 2

\* -np.inf if bnd[0] is None else bnd[0]
LowerValueSwapped(bnd) ==
    IF bnd.items[2].isNone THEN NegInf ELSE Num(bnd.items[2].val)
LowerValue(bnd) ==
    IF bnd.items[1].isNone THEN NegInf ELSE Num(bnd.items[1].val)

\* np.inf if bnd[1] is None else bnd[1]
UpperValue(bnd) ==
    IF bnd.items[2].isNone THEN PosInf ELSE Num(bnd.items[2].val)

\* for idx, bnd in enumerate(bounds): ...
RECURSIVE BoundsLoop(_, _, _, _, _)
BoundsLoop(items, idx, lower, upper, dt) ==
    IF idx > Len(items) THEN Returned(lower, upper)
    ELSE LET bnd == items[idx] IN
         IF bnd.isNone THEN BoundsLoop(items, idx + 1, lower, upper, dt)
         ELSE IF EntryMalformed(bnd) THEN Raised("ValueError", EntryMsg, idx)
         ELSE BoundsLoop(items, idx + 1,
                         [lower EXCEPT ![idx] = Cast(dt, LowerValue(bnd))],
                         [upper EXCEPT ![idx] = Cast(dt, UpperValue(bnd))],
                         dt)

\* The same body with the length check after the loop instead of before it.
ProcessBoundsLoopFirst(b, n, dt) ==
    LET lower_bounds == Full(n, NegInf, dt)
        upper_bounds == Full(n, PosInf, dt)
        m == IF Len(b.items) < n THEN Len(b.items) ELSE n
        looped == BoundsLoop(SubSeq(b.items, 1, m), 1, lower_bounds, upper_bounds, dt)
    IN IF b.isNone THEN Returned(lower_bounds, upper_bounds)
       ELSE IF looped.status = "error" THEN looped
       ELSE IF LengthCheckFails(b, n) THEN Raised("ValueError", LengthMsg, 0)
       ELSE looped

ProcessBounds(b, n, dt) ==
    LET lower_bounds == Full(n, NegInf, dt)
        upper_bounds == Full(n, PosInf, dt)
    IN IF b.isNone THEN Returned(lower_bounds, upper_bounds)
       ELSE IF LengthCheckFails(b, n) THEN Raised("ValueError", LengthMsg, 0)
       ELSE BoundsLoop(b.items, 1, lower_bounds, upper_bounds, dt)

-----------------------------------------------------------------------------
(* The heap.  np.full makes a new array object each time it is called. *)

\* The two arrays of a successful call, put on the heap: the heap after, and
\* the references to lower_bounds and upper_bounds.
AllocArraysReused(h, lower, upper) ==
    IF Len(h) >= 2
    THEN [heap |-> [h EXCEPT ![1] = lower, ![2] = upper], lo |-> 1, hi |-> 2]
    ELSE [heap |-> h \o <<lower, upper>>, lo |-> Len(h) + 1, hi |-> Len(h) + 2]
AllocArrays(h, lower, upper) ==
    [heap |-> h \o <<lower, upper>>, lo |-> Len(h) + 1, hi |-> Len(h) + 2]

-----------------------------------------------------------------------------
(* The emitter object and the class it is an instance of. *)

\* @abstractmethod ask, @abstractmethod tell
AbstractMethods == {"ask", "tell"}

\* The methods a child class overrides.
ChildClasses == {{"ask"}, {"ask", "tell"}}

\* ABC refuses to instantiate a class that leaves an abstract method abstract.
Instantiable(overrides) == AbstractMethods \subseteq overrides

NoEmitter ==
    [constructed |-> FALSE, overrides |-> {}, archive |-> "", solution_dim |-> 0,
     lower_bounds |-> 0, upper_bounds |-> 0, init_lower |-> <<>>, init_upper |-> <<>>]

NoCma ==
    [variant |-> "", batch_size |-> 0, explicit |-> FALSE, generation |-> 0,
     restarts |-> 0, step_size |-> "", asked |-> 0]

NoOp == [op |-> "", nsol |-> 0, nobj |-> 0, exc |-> ""]

\* How a constructor call ended: the class, and the exception it raised ("" if
\* it returned an emitter).
NoCtor == [ran |-> FALSE, overrides |-> {}, exc |-> "", msg |-> ""]
Ctor(overrides, exc, msg) ==
    [ran |-> TRUE, overrides |-> overrides, exc |-> exc, msg |-> msg]

Init ==
    /\ bounds \in BoundsArgs
    /\ solution_dim \in 0..MaxDim
    /\ dtype \in DTypes
    /\ heap = <<>>
    /\ calls = <<>>
    /\ emitter = NoEmitter
    /\ held = {}
    /\ written = {}
    /\ ctor = NoCtor
    /\ cma = NoCma
    /\ last = NoOp

\* A direct call EmitterBase._process_bounds(bounds, solution_dim, dtype).
ProcessBoundsCall ==
    /\ Len(calls) < MaxCalls
    /\ LET out == ProcessBounds(bounds, solution_dim, dtype)
           al == AllocArrays(heap, out.lower, out.upper)
           args == [bounds |-> bounds, solution_dim |-> solution_dim, dtype |-> dtype]
       IN IF out.status = "ok"
          THEN /\ heap' = al.heap
               /\ calls' = Append(calls, [args |-> args, out |-> out,
                                          lo |-> al.lo, hi |-> al.hi])
          ELSE /\ heap' = heap
               /\ calls' = Append(calls, [args |-> args, out |-> out,
                                          lo |-> 0, hi |-> 0])
    /\ UNCHANGED <<bounds, solution_dim, dtype, emitter, held, written, ctor, cma, last>>

\* Child(archive, solution_dim, bounds), Child a class that overrides `overrides`
\* and whose constructor is EmitterBase.__init__.
Construct(overrides) ==
    /\ ~emitter.constructed
    /\ IF ~Instantiable(overrides)
       THEN /\ ctor' = Ctor(overrides, "TypeError", "")
            /\ UNCHANGED <<heap, emitter>>
       ELSE LET out == ProcessBounds(bounds, solution_dim, dtype)
                al == AllocArrays(heap, out.lower, out.upper)
            IN IF out.status = "ok"
               THEN /\ heap' = al.heap
                    /\ emitter' =
                         [constructed |-> TRUE, overrides |-> overrides,
                          archive |-> "archive", solution_dim |-> solution_dim,
                          lower_bounds |-> al.lo, upper_bounds |-> al.hi,
                          init_lower |-> out.lower, init_upper |-> out.upper]
                    /\ ctor' = Ctor(overrides, "", "")
               ELSE /\ ctor' = Ctor(overrides, out.exc, out.msg)
                    /\ UNCHANGED <<heap, emitter>>
    /\ UNCHANGED <<bounds, solution_dim, dtype, calls, held, written, cma, last>>

\* emitter.archive
ReadArchive ==
    /\ emitter.constructed
    /\ UNCHANGED vars

\* emitter.solution_dim
ReadSolutionDim ==
    /\ emitter.constructed
    /\ UNCHANGED vars

\* emitter.lower_bounds: returns self._lower_bounds, the array itself.
ReadLowerBounds ==
    /\ emitter.constructed
    /\ held' = held \cup {emitter.lower_bounds}
    /\ UNCHANGED <<bounds, solution_dim, dtype, heap, calls, emitter, written, ctor, cma, last>>

\* emitter.upper_bounds: returns self._upper_bounds, the array itself.
ReadUpperBounds ==
    /\ emitter.constructed
    /\ held' = held \cup {emitter.upper_bounds}
    /\ UNCHANGED <<bounds, solution_dim, dtype, heap, calls, emitter, written, ctor, cma, last>>

\* EmitterBase.ask: the body is the docstring alone.
Ask ==
    /\ emitter.constructed
    /\ UNCHANGED vars

\* EmitterBase.tell: the body is the docstring alone, whatever the batches are.
Tell(nsol, nobj) ==
    /\ emitter.constructed
    /\ UNCHANGED vars

\* The references to arrays the caller has: those _process_bounds returned to
\* it and those the properties returned to it.
CallerRefs ==
    held \cup UNION {{calls[k].lo, calls[k].hi} :
                       k \in {j \in 1..Len(calls) : calls[j].out.status = "ok"}}

\* What the caller stores into an array, and where: a[0] = 1.0.
WriteVals == {Num(1)}
WritePositions == {1}

\* The caller assigns to an element of an array it holds: a[i] = v.
CallerWrite(r, i, v) ==
    /\ r \in CallerRefs
    /\ i \in 1..Len(heap[r])
    /\ Cardinality(written) < MaxWrites
    /\ <<r, i>> \notin written
    /\ heap' = [heap EXCEPT ![r][i] = v]
    /\ written' = written \cup {<<r, i>>}
    /\ UNCHANGED <<bounds, solution_dim, dtype, calls, emitter, held, ctor, cma, last>>

AnyWrite ==
    \E r \in 1..Len(heap), i \in WritePositions, v \in WriteVals : CallerWrite(r, i, v)

-----------------------------------------------------------------------------
(* The bounds processor, called directly and by the constructor. *)

NextBounds ==
    \/ ProcessBoundsCall
    \/ \E overrides \in ChildClasses : Construct(overrides)

SpecBounds == Init /\ [][NextBounds]_vars

(* The bounds processor and a caller that uses the arrays it returns. *)

NextPure ==
    \/ ProcessBoundsCall
    \/ AnyWrite

SpecPure == Init /\ [][NextPure]_vars

(* An emitter and its caller. *)

NextEmitter ==
    \/ \E overrides \in ChildClasses : Construct(overrides)
    \/ ReadArchive
    \/ ReadSolutionDim
    \/ ReadLowerBounds
    \/ ReadUpperBounds
    \/ Ask
    \/ \E nsol, nobj \in 0..MaxBatch : Tell(nsol, nobj)
    \/ AnyWrite

SpecEmitter == Init /\ [][NextEmitter]_vars

-----------------------------------------------------------------------------
(* The CMA-ME emitters (ImprovementEmitter, RandomDirectionEmitter,        *)
(* OptimizingEmitter).  Their code is not part of the sources at hand; the *)
(* test cma_me_emitter_test.py constructs them.  What follows is their     *)
(* described behaviour: the default batch size, the ask/tell protocol and  *)
(* the restart.                                                            *)

Variants == {"ImprovementEmitter", "RandomDirectionEmitter", "OptimizingEmitter"}

\* The least integer >= e^k, k = 1, 2, ...: for an integer m, e^k <= m exactly
\* when ExpCeil[k] <= m.
ExpCeil == <<3, 8, 21, 55, 149, 404, 1097, 2981, 8104, 22027, 59875>>

Max(a, b) == IF a >= b THEN a ELSE b

\* floor(ln(m)), m >= 1
FloorLn(m) ==
    LET ks == {k \in 1..Len(ExpCeil) : ExpCeil[k] <= m}
    IN IF ks = {} THEN 0 ELSE CHOOSE k \in ks : \A j \in ks : j <= k

\* 4 + 3 * floor(ln(n)): the floor taken too early.
DefaultBatchSizeFloorFirst(n) == Max(1, 4 + 3 * FloorLn(n))

\* max(1, 4 + floor(3 * ln(n))), and 3 * ln(n) = ln(n^3)
DefaultBatchSize(n) == Max(1, 4 + FloorLn(n * n * n))

\* tell() refuses batches whose lengths disagree with each other or with the
\* batch the preceding ask() returned, and a tell() with no ask() before it.
TellRefusesBySolutionsOnly(nsol, nobj, asked) == asked = 0 \/ nsol # asked
TellRefuses(nsol, nobj, asked) == asked = 0 \/ nsol # asked \/ nobj # nsol

\* A CMA-ME emitter constructed with x0 of length solution_dim, no bounds and
\* either no batch_size (explicit = 0) or the batch_size explicit.
InitCMA ==
    /\ bounds = NoneBounds
    /\ solution_dim \in 1..MaxSolDim
    /\ dtype = "float64"
    /\ heap = <<Full(solution_dim, NegInf, dtype), Full(solution_dim, PosInf, dtype)>>
    /\ calls = <<>>
    /\ emitter =
         [constructed |-> TRUE, overrides |-> {"ask", "tell"},
          archive |-> "archive", solution_dim |-> solution_dim,
          lower_bounds |-> 1, upper_bounds |-> 2,
          init_lower |-> heap[1], init_upper |-> heap[2]]
    /\ held = {}
    /\ written = {}
    /\ ctor = Ctor({"ask", "tell"}, "", "")
    /\ \E variant \in Variants, explicit \in 0..MaxExplicit :
          cma = [variant |-> variant,
                 batch_size |-> IF explicit = 0 THEN DefaultBatchSize(solution_dim)
                                ELSE explicit,
                 explicit |-> explicit # 0,
                 generation |-> 0, restarts |-> 0, step_size |-> "sigma0",
                 asked |-> 0]
    /\ last = NoOp

\* ask(): a batch of batch_size solutions.
CmaAsk ==
    /\ cma' = [cma EXCEPT !.asked = cma.batch_size]
    /\ last' = [op |-> "ask", nsol |-> cma.batch_size, nobj |-> 0, exc |-> ""]
    /\ UNCHANGED <<bounds, solution_dim, dtype, heap, calls, emitter, held, written, ctor>>

\* tell() with nsol solutions and nobj objectives: refused whole, or applied
\* whole.  restart says whether a restart condition holds after the update.
CmaTell(nsol, nobj, restart) ==
    /\ IF TellRefuses(nsol, nobj, cma.asked)
       THEN /\ last' = [op |-> "tell", nsol |-> nsol, nobj |-> nobj, exc |-> "ProtocolError"]
            /\ cma' = cma
       ELSE /\ last' = [op |-> "tell", nsol |-> nsol, nobj |-> nobj, exc |-> ""]
            /\ IF restart
               THEN /\ cma.restarts < MaxRestarts
                    /\ cma' = [cma EXCEPT !.generation = 0, !.step_size = "sigma0",
                                          !.restarts = @ + 1, !.asked = 0]
               ELSE /\ cma.generation < MaxGen
                    /\ cma' = [cma EXCEPT !.generation = @ + 1, !.step_size = "adapted",
                                          !.asked = 0]
    /\ UNCHANGED <<bounds, solution_dim, dtype, heap, calls, emitter, held, written, ctor>>

\* The lengths a caller may give: none, the batch asked for, one more, one less.
TellLens == {0, cma.batch_size - 1, cma.batch_size, cma.batch_size + 1} \cap Nat

NextCMA ==
    \/ CmaAsk
    \/ \E nsol, nobj \in TellLens, restart \in BOOLEAN : CmaTell(nsol, nobj, restart)

SpecCMA == InitCMA /\ [][NextCMA]_vars

-----------------------------------------------------------------------------
(* Properties of the bounds processor. *)

Calls == {calls[k] : k \in 1..Len(calls)}
OkCalls == {c \in Calls : c.out.status = "ok"}

\* The constructor got as far as EmitterBase.__init__.
InitRan == ctor.ran /\ Instantiable(ctor.overrides)

\* bounds is a sequence whose length differs from solution_dim.
LengthMismatch == ~bounds.isNone /\ Len(bounds.items) # solution_dim

\* The positions of the entries that are present and are not pairs.
MalformedAt ==
    {i \in 1..Len(bounds.items) :
        ~bounds.items[i].isNone /\ Len(bounds.items[i].items) # 2}

\* The call raised ValueError and returned no vectors.
Rejected(c) ==
    /\ c.out.status = "error"
    /\ c.out.exc = "ValueError"
    /\ c.lo = 0 /\ c.hi = 0
    /\ c.out.lower = <<>> /\ c.out.upper = <<>>

\* C1: a bounds sequence whose length differs from solution_dim (the empty
\* sequence with solution_dim > 0 included) makes _process_bounds, and with it
\* EmitterBase.__init__, raise the configuration error (ValueError) and return
\* no bounds vectors.
C1_LengthMismatchRejected ==
    LengthMismatch =>
        /\ \A c \in Calls : Rejected(c)
        /\ InitRan => ctor.exc = "ValueError" /\ ~emitter.constructed

C1_Witness ==
    /\ ~bounds.isNone /\ bounds.items = <<>> /\ solution_dim > 0
    /\ Len(calls) > 0
    /\ InitRan

\* C2: a bounds sequence of length solution_dim with at least one entry that is
\* present and does not have exactly 2 elements makes _process_bounds raise the
\* configuration error (ValueError), whatever the other entries are.
C2_MalformedEntryRejected ==
    (~bounds.isNone /\ ~LengthMismatch /\ MalformedAt # {}) =>
        /\ \A c \in Calls : Rejected(c)
        /\ InitRan => ctor.exc = "ValueError" /\ ~emitter.constructed

C2_Witness ==
    /\ ~bounds.isNone /\ ~LengthMismatch
    /\ MalformedAt = {2}
    /\ Len(bounds.items[2].items) = 3
    /\ ~bounds.items[1].isNone
    /\ Len(calls) > 0
    /\ InitRan

\* What the documentation gives dimension i: the given low and high, -inf and
\* +inf where bounds, the entry or the side is absent.
GivenLow(i) ==
    IF bounds.isNone \/ bounds.items[i].isNone \/ bounds.items[i].items[1].isNone
    THEN NegInf ELSE Num(bounds.items[i].items[1].val)
GivenHigh(i) ==
    IF bounds.isNone \/ bounds.items[i].isNone \/ bounds.items[i].items[2].isNone
    THEN PosInf ELSE Num(bounds.items[i].items[2].val)

\* The vectors are of length solution_dim and hold, at each position, conv of
\* the documented value of that position.
VectorsAre(lower, upper, conv(_)) ==
    /\ Len(lower) = solution_dim /\ Len(upper) = solution_dim
    /\ \A i \in 1..solution_dim :
          /\ lower[i] = conv(GivenLow(i))
          /\ upper[i] = conv(GivenHigh(i))

Same(x) == x
AsDType(x) == Cast(dtype, x)

ResultsAre(conv(_)) ==
    /\ \A c \in OkCalls :
          /\ VectorsAre(c.out.lower, c.out.upper, conv)
          /\ VectorsAre(heap[c.lo], heap[c.hi], conv)
    /\ emitter.constructed =>
          VectorsAre(heap[emitter.lower_bounds], heap[emitter.upper_bounds], conv)

\* C3 as stated: every accepted bounds specification gives two vectors of
\* length solution_dim with lower_bounds[i] the given low (-inf when bounds,
\* the entry or low is absent) and upper_bounds[i] the given high (+inf when
\* bounds, the entry or high is absent), each dimension by its own entry alone.
C3_ExactValues == ResultsAre(Same)

\* C3 amended: the same, with each given number converted to the array's
\* element type dtype (rounded to the nearest number the type represents).
C3_ValuesAsDType == ResultsAre(AsDType)

C3_Witness ==
    /\ dtype = "float32"
    /\ solution_dim = 2
    /\ bounds = SeqBounds(<<Tuple(<<SomeSide(Big), NoneSide>>), NoneEntry>>)
    /\ \E c \in OkCalls :
          /\ c.out.lower = <<Num(2^24), NegInf>>
          /\ c.out.upper = <<PosInf, PosInf>>
    /\ emitter.constructed

\* C4: whenever _process_bounds returns (and so for every constructed
\* emitter), lower_bounds[i] <= upper_bounds[i] for every dimension i.
C4_LowerLeUpper ==
    /\ \A c \in OkCalls :
          \A i \in 1..solution_dim : Le(c.out.lower[i], c.out.upper[i])
    /\ emitter.constructed =>
          \A i \in 1..solution_dim :
              Le(heap[emitter.lower_bounds][i], heap[emitter.upper_bounds][i])

\* C10: the length check comes before any entry is looked at (a sequence of
\* the wrong length with a malformed entry is rejected for its length), and
\* the entries are looked at in increasing order (a sequence of the right
\* length is rejected at its first malformed entry, the well-formed entries
\* before it notwithstanding), and no vectors are returned.
C10_ValidationOrder ==
    /\ (LengthMismatch /\ MalformedAt # {}) =>
          /\ \A c \in Calls : Rejected(c) /\ c.out.msg = LengthMsg /\ c.out.idx = 0
          /\ InitRan => ctor.msg = LengthMsg /\ ~emitter.constructed
    /\ (~bounds.isNone /\ ~LengthMismatch /\ MalformedAt # {}) =>
          /\ \A c \in Calls :
                /\ Rejected(c) /\ c.out.msg = EntryMsg
                /\ c.out.idx \in MalformedAt
                /\ \A k \in MalformedAt : c.out.idx <= k
          /\ InitRan => ctor.msg = EntryMsg /\ ~emitter.constructed

C10_Witness ==
    /\ LengthMismatch
    /\ 1 \in MalformedAt
    /\ solution_dim > 0
    /\ Len(calls) > 0
    /\ InitRan

-----------------------------------------------------------------------------
(* Properties of the processor's effects. *)

\* C9: _process_bounds has no side effects: it leaves the caller's bounds
\* argument as it was; calls with the same arguments end the same way and
\* return equal vectors; and the arrays of one call are new objects, so an
\* element the caller changes in one changes no array of another call.
C9_Pure ==
    /\ \A c \in Calls : c.args.bounds = bounds
    /\ \A c, d \in Calls :
          c.args = d.args => c.out.status = d.out.status /\ c.out.msg = d.out.msg
    /\ \A c \in OkCalls : c.lo # c.hi
    /\ \A j, k \in 1..Len(calls) :
          (j # k /\ calls[j].out.status = "ok" /\ calls[k].out.status = "ok") =>
              {calls[j].lo, calls[j].hi} \cap {calls[k].lo, calls[k].hi} = {}
    /\ \A c \in OkCalls : \A i \in 1..solution_dim :
          /\ <<c.lo, i>> \notin written => heap[c.lo][i] = c.out.lower[i]
          /\ <<c.hi, i>> \notin written => heap[c.hi][i] = c.out.upper[i]
    /\ \A c, d \in OkCalls : \A i \in 1..solution_dim :
          c.args = d.args =>
              /\ (<<c.lo, i>> \notin written /\ <<d.lo, i>> \notin written)
                    => heap[c.lo][i] = heap[d.lo][i]
              /\ (<<c.hi, i>> \notin written /\ <<d.hi, i>> \notin written)
                    => heap[c.hi][i] = heap[d.hi][i]

C9_Witness ==
    /\ Len(calls) = 2
    /\ calls[1].out.status = "ok"
    /\ ~bounds.isNone
    /\ written = {<<calls[1].lo, 1>>}
    /\ heap[calls[1].lo][1] # heap[calls[2].lo][1]
    /\ heap[calls[2].lo][1] = calls[2].out.lower[1]

-----------------------------------------------------------------------------
(* Properties of the emitter. *)

\* C5: once an emitter is constructed, whatever is asked, told, read or done
\* with what the properties returned, lower_bounds and upper_bounds are the
\* vectors computed at construction and archive and solution_dim are unchanged.
C5_BoundsImmutable ==
    emitter.constructed =>
        /\ heap[emitter.lower_bounds] = emitter.init_lower
        /\ heap[emitter.upper_bounds] = emitter.init_upper
        /\ emitter.archive = "archive"
        /\ emitter.solution_dim = solution_dim

\* C8: a child class that overrides ask() and not tell() can be instantiated.
C8_OnlyAskRequired ==
    (ctor.ran /\ "ask" \in ctor.overrides) => ctor.exc # "TypeError"

-----------------------------------------------------------------------------
(* Properties of the CMA-ME emitters. *)

\* C6: a CMA-ME emitter of any of the three variants constructed without a
\* batch_size has an integer batch_size, max(1, 4 + floor(3 ln(solution_dim)))
\* (12 for solution_dim = 20), at every point of its life, restarts included:
\* batch_size - 4 is the k with e^k <= solution_dim^3 < e^(k+1).
C6_DefaultBatchSize ==
    ~cma.explicit =>
        /\ cma.batch_size \in Nat /\ cma.batch_size >= 1
        /\ LET k == cma.batch_size - 4
               cube == solution_dim * solution_dim * solution_dim
           IN /\ k \in 0..(Len(ExpCeil) - 1)
              /\ k > 0 => ExpCeil[k] <= cube
              /\ cube < ExpCeil[k + 1]
        /\ solution_dim = 20 => cma.batch_size = 12

C6_Witness ==
    /\ ~cma.explicit
    /\ solution_dim = 20
    /\ cma.batch_size = 12
    /\ cma.restarts > 0
    /\ cma.generation > 0

====
